---- MODULE Spec2Model ----
(***************************************************************************)
(* A model of calendar-valley's two batch jobs:                            *)
(*   scripts/parse_tech_week_html.py  (the extractor)                      *)
(*   scripts/merge_events.py          (the merger)                         *)
(*                                                                         *)
(* Text is modelled character by character: a Python str is a sequence of  *)
(* one-character strings ("A", " ", ",").  An element of more than one     *)
(* character names a single code point the module's notation cannot write  *)
(* ("U+1F4E7" is the e-mail emoji of the banner).  Line terminators are    *)
(* not part of the alphabet: a file is the sequence of its lines.          *)
(***************************************************************************)
EXTENDS Integers, Sequences, FiniteSets

VARIABLES
    pc,             \* position of the job being run
    event1, event2, \* is_duplicate's two rows
    threshold,      \* is_duplicate's threshold, a rational [num, den]
    dup,            \* is_duplicate's result
    pub_file,       \* public/events.csv: a sequence of lines, or Missing
    tw_file,        \* scripts/tech_week_events.csv: a sequence of lines, or Missing
    cv_events,      \* merge_events: rows read from the published file
    tw_events,      \* merge_events: rows read from the intermediate file
    merged,         \* merge_events: the list it returns
    added_count,    \* merge_events: candidates appended
    skipped_count,  \* merge_events: candidates skipped as duplicates
    sorted_events,  \* write_output_csv: the rows in emitted order
    runs,           \* completed runs of the merger's main
    first_pub,      \* the published file as the first run left it
    first_rows,     \* the rows the first run wrote
    html,           \* the extractor's input: the event containers of the page
    idx,            \* parse_tech_week_html: containers parsed so far
    event,          \* parse_event_item: the record of the last container
    parsed,         \* parse_tech_week_html: its list events, the records kept so far
    formatted       \* format_for_csv: the rows it returns

vars == <<pc, event1, event2, threshold, dup, pub_file, tw_file, cv_events,
          tw_events, merged, added_count, skipped_count, sorted_events, runs,
          first_pub, first_rows, html, idx, event, parsed, formatted>>

-----------------------------------------------------------------------------
(* Python's str operations, as the two scripts use them.                   *)

Upper == <<"A","B","C","D","E","F","G","H","I","J","K","L","M",
           "N","O","P","Q","R","S","T","U","V","W","X","Y","Z">>
Lower == <<"a","b","c","d","e","f","g","h","i","j","k","l","m",
           "n","o","p","q","r","s","t","u","v","w","x","y","z">>
Digits == <<"0","1","2","3","4","5","6","7","8","9">>
Whitespace == {" ", "\t"}

Max(S) == CHOOSE x \in S : \A y \in S : y <= x
Min(S) == CHOOSE x \in S : \A y \in S : x <= y

lower_char(c) ==
    IF \E i \in 1..26 : Upper[i] = c
    THEN Lower[CHOOSE i \in 1..26 : Upper[i] = c]
    ELSE c

\* str.lower()
str_lower(s) == [i \in 1..Len(s) |-> lower_char(s[i])]

\* s[i:].startswith(sub), i counted from 1
starts_at(s, sub, i) ==
    /\ i + Len(sub) - 1 <= Len(s)
    /\ \A k \in 1..Len(sub) : s[i + k - 1] = sub[k]

\* s.startswith(sub)
str_startswith(s, sub) == starts_at(s, sub, 1)

\* sub in s
str_contains(s, sub) == \E i \in 1..(Len(s) - Len(sub) + 1) : starts_at(s, sub, i)

\* s.replace(old, new): the non-overlapping occurrences, left to right
RECURSIVE str_replace(_, _, _)
str_replace(s, old, new) ==
    IF Len(s) < Len(old) \/ Len(old) = 0 THEN s
    ELSE IF starts_at(s, old, 1)
         THEN new \o str_replace(SubSeq(s, Len(old) + 1, Len(s)), old, new)
         ELSE <<s[1]>> \o str_replace(Tail(s), old, new)

\* s.strip()
str_strip(s) ==
    LET keep == {i \in 1..Len(s) : s[i] \notin Whitespace}
    IN  IF keep = {} THEN <<>> ELSE SubSeq(s, Min(keep), Max(keep))

is_digit(c) == \E i \in 1..10 : Digits[i] = c
digit_value(c) == (CHOOSE i \in 1..10 : Digits[i] = c) - 1

\* the value of a run of decimal digits
RECURSIVE digits_value(_)
digits_value(s) ==
    IF Len(s) = 0 THEN 0
    ELSE 10 * digits_value(SubSeq(s, 1, Len(s) - 1)) + digit_value(s[Len(s)])

\* str(n) for an integer n
RECURSIVE nat_str(_)
nat_str(n) == IF n < 10 THEN <<Digits[n + 1]>> ELSE nat_str(n \div 10) \o <<Digits[(n % 10) + 1]>>
int_str(n) == IF n < 0 THEN <<"-">> \o nat_str(-n) ELSE nat_str(n)

-----------------------------------------------------------------------------
(* Literals of the two scripts.                                            *)

Marker == <<"[","T","e","c","h"," ","W","e","e","k","]">>
SpaceMarker == <<" ">> \o Marker
SubmitAnEvent == <<"S","u","b","m","i","t"," ","a","n"," ","e","v","e","n","t">>
CerebralValley == <<"C","e","r","e","b","r","a","l"," ","V","a","l","l","e","y">>

-----------------------------------------------------------------------------
(* merge_events.py: similarity and is_duplicate.                           *)

\* A row of the interchange CSV.  Time is the column "Time (PST)".
Row(m, e, d, t, l, k) ==
    [Month |-> m, Event |-> e, Date |-> d, Time |-> t, Location |-> l, Link |-> k]

\* the length of the common run of a[i..] and b[j..]
RECURSIVE common_len(_, _, _, _)
common_len(a, b, i, j) ==
    IF i > Len(a) \/ j > Len(b) THEN 0
    ELSE IF a[i] # b[j] THEN 0
    ELSE 1 + common_len(a, b, i + 1, j + 1)

\* difflib.SequenceMatcher.find_longest_match with no junk: the longest
\* common block, of those the one starting earliest in a, of those the one
\* starting earliest in b
find_longest_match(a, b) ==
    LET run == [p \in (1..Len(a)) \X (1..Len(b)) |-> common_len(a, b, p[1], p[2])]
        k   == Max({run[p] : p \in DOMAIN run} \cup {0})
        bi  == Min({p[1] : p \in {q \in DOMAIN run : run[q] = k}})
        bj  == Min({p[2] : p \in {q \in DOMAIN run : run[q] = k /\ q[1] = bi}})
    IN  IF k = 0 THEN [i |-> 1, j |-> 1, size |-> 0]
        ELSE [i |-> bi, j |-> bj, size |-> k]

\* the sum of the sizes of SequenceMatcher.get_matching_blocks()
RECURSIVE matches(_, _)
matches(a, b) ==
    IF Len(a) = 0 \/ Len(b) = 0 THEN 0
    ELSE LET m == find_longest_match(a, b)
         IN  IF m.size = 0 THEN 0
             ELSE m.size
                  + matches(SubSeq(a, 1, m.i - 1), SubSeq(b, 1, m.j - 1))
                  + matches(SubSeq(a, m.i + m.size, Len(a)),
                            SubSeq(b, m.j + m.size, Len(b)))

\* SequenceMatcher(None, a.lower(), b.lower()).ratio() as the exact rational
\* 2*M/T (1.0 for two empty strings)
similarity(a, b) ==
    LET la == str_lower(a)
        lb == str_lower(b)
    IN  IF Len(la) + Len(lb) = 0 THEN [num |-> 1, den |-> 1]
        ELSE [num |-> 2 * matches(la, lb), den |-> Len(la) + Len(lb)]

\* x >= t for a ratio x and a threshold t, both with positive denominators
ratio_ge(x, t) == x.num * t.den >= t.num * x.den

\* the default of is_duplicate's threshold parameter, 0.8
DefaultThreshold == [num |-> 4, den |-> 5]

\* title.replace('[Tech Week]', '').strip()
clean_title(name) == str_strip(str_replace(name, Marker, <<>>))

\* is_duplicate without its exact-match test
is_duplicate_ratio_only(e1, e2, t) ==
    ratio_ge(similarity(clean_title(e1.Event), clean_title(e2.Event)), t)

is_duplicate(e1, e2, t) ==
    LET name1_clean == clean_title(e1.Event)
        name2_clean == clean_title(e2.Event)
    IN  IF str_lower(name1_clean) = str_lower(name2_clean) THEN TRUE
        ELSE ratio_ge(similarity(name1_clean, name2_clean), t)

-----------------------------------------------------------------------------
(* The csv module's excel dialect, as csv.writer and csv.DictReader use it *)
(* on one line.                                                            *)

\* csv.writer quotes a field that holds the delimiter or the quote character
needs_quote(field) == \E i \in 1..Len(field) : field[i] \in {",", "\""}

csv_quote(field) ==
    IF needs_quote(field)
    THEN <<"\"">> \o str_replace(field, <<"\"">>, <<"\"", "\"">>) \o <<"\"">>
    ELSE field

\* cells joined by the delimiter
RECURSIVE csv_join(_)
csv_join(cells) ==
    IF Len(cells) = 0 THEN <<>>
    ELSE IF Len(cells) = 1 THEN csv_quote(cells[1])
    ELSE csv_quote(cells[1]) \o <<",">> \o csv_join(Tail(cells))

\* csv.writer.writerow(row): the line written, without its terminator
\* (a row of one empty field is written as a pair of quotes)
csv_writerow(cells) ==
    IF cells = << <<>> >> THEN <<"\"", "\"">> ELSE csv_join(cells)

\* the end of the unquoted text starting at i: the next delimiter, or the
\* end of the line
field_end(line, i) ==
    LET commas == {k \in i..Len(line) : line[k] = ","}
    IN  IF commas = {} THEN Len(line) + 1 ELSE Min(commas)

\* the quote closing the quoted field opened at i: quotes inside the field
\* are doubled, so it is the last quote of the first run of quotes of odd
\* length (Len(line) + 1 when the field is not closed on the line)
closing_quote(line, i) ==
    LET run_start(q) == 1 + Max({k \in (i + 1)..(q - 1) : line[k] # "\""} \cup {i})
        closing == {q \in (i + 1)..Len(line) :
                       /\ line[q] = "\""
                       /\ (q = Len(line) \/ line[q + 1] # "\"")
                       /\ (q - run_start(q) + 1) % 2 = 1}
    IN  IF closing = {} THEN Len(line) + 1 ELSE Min(closing)

\* csv.reader on one line, a field starting at i.  An unquoted field runs to
\* the next delimiter.  A quoted field runs to its closing quote, a doubled
\* quote standing for one, and what follows the closing quote up to the
\* next delimiter is taken as it is.
RECURSIVE csv_fields(_, _)
csv_fields(line, i) ==
    IF i > Len(line) THEN << <<>> >>
    ELSE IF line[i] # "\""
    THEN LET j == field_end(line, i)
         IN  <<SubSeq(line, i, j - 1)>>
             \o (IF j > Len(line) THEN <<>> ELSE csv_fields(line, j + 1))
    ELSE LET q == closing_quote(line, i)
             j == field_end(line, q + 1)
         IN  <<str_replace(SubSeq(line, i + 1, q - 1), <<"\"", "\"">>, <<"\"">>)
               \o SubSeq(line, q + 1, j - 1)>>
             \o (IF j > Len(line) THEN <<>> ELSE csv_fields(line, j + 1))

\* the row csv.reader yields for a line: no field at all for an empty line
csv_readrow(line) == IF Len(line) = 0 THEN <<>> ELSE csv_fields(line, 1)

\* the value of a key no column supplies (Python's None)
NoneValue == <<"None">>

\* dict(zip(fieldnames, row)).get(key): the last column of that name wins;
\* a column the row is too short for holds None
dict_get(fieldnames, row, key) ==
    LET cols == {i \in 1..Len(fieldnames) : fieldnames[i] = key}
    IN  IF cols = {} THEN NoneValue
        ELSE IF Max(cols) > Len(row) THEN NoneValue
        ELSE row[Max(cols)]

\* Python's truth value of a str or None
truthy(v) == v # NoneValue /\ v # <<>>

-----------------------------------------------------------------------------
(* merge_events.py: the literals of the published file.                    *)

F_Month == <<"M","o","n","t","h">>
F_Event == <<"E","v","e","n","t">>
F_Date == <<"D","a","t","e">>
F_Time == <<"T","i","m","e"," ","(","P","S","T",")">>
F_Location == <<"L","o","c","a","t","i","o","n">>
F_Link == <<"L","i","n","k">>

\* the fieldnames read_csv gives DictReader for the intermediate file
FieldNames == <<F_Month, F_Event, F_Date, F_Time, F_Location, F_Link>>

Banner1 == <<"u",",",",",",",",",",">>
Banner2 == <<",","S","u","b","m","i","t"," ","a","n"," ","e","v","e","n","t","!"," ",",","C","e","r","e","b","r","a","l"," ","V","a","l","l","e","y",",",",",",">>
Banner3 == <<",",",","J","o","i","n"," ","o","u","r"," ","S","l","a","c","k"," ","C","o","m","m","u","n","i","t","y",",",",",",">>
Banner4 == <<",","U+1F4E7"," ","S","u","b","s","c","r","i","b","e"," ","t","o"," ","t","h","e"," ","E","v","e","n","t","s"," ","N","e","w","s","l","e","t","t","e","r",",","N","e","w"," ","Y","o","r","k",",","L","o","n","d","o","n",",","S","e","a","t","t","l","e",",">>
Banner5 == <<",","U+1F4E7"," ","D","M"," ","C","e","r","e","b","r","a","l"," ","V","a","l","l","e","y"," ","o","n"," ","T","w","i","t","t","e","r",",","C","l","i","c","k"," ","t","o"," ","s","e","e"," ","2","0","2","5"," ","H","a","c","k","a","t","h","o","n","s","!",",",",","B","o","s","t","o","n",",">>
Banner6 == <<",","U+1F41B"," ","S","u","b","m","i","t"," ","i","s","s","u","e",":"," ","g","i","t","h","u","b",".","c","o","m","/","m","i","k","e","z","u","c","c","/","c","a","l","e","n","d","a","r","-","v","a","l","l","e","y",",",",",",",",">>
HeaderLine == <<"M","o","n","t","h",",","E","v","e","n","t",",","D","a","t","e",",","T","i","m","e"," ","(","P","S","T",")",",","L","o","c","a","t","i","o","n",",","L","i","n","k">>

\* the lines main writes when the published file does not exist
MainTemplate == <<Banner1, Banner2, Banner3, Banner4, Banner5, HeaderLine>>

\* the lines write_output_csv writes before the rows
WrittenPreamble == <<Banner1, Banner2, Banner3, Banner4, Banner5, Banner6, HeaderLine>>

PublishedPath == <<"p","u","b","l","i","c","/","e","v","e","n","t","s",".","c","s","v">>
TechWeekPath == <<"s","c","r","i","p","t","s","/","t","e","c","h","_","w","e","e","k","_","e","v","e","n","t","s",".","c","s","v">>
PublicEvents == <<"p","u","b","l","i","c","/","e","v","e","n","t","s">>
EventsBackup == <<"e","v","e","n","t","s","_","b","a","c","k","u","p">>

January == <<"J","a","n","u","a","r","y">>
February == <<"F","e","b","r","u","a","r","y">>
March == <<"M","a","r","c","h">>
April == <<"A","p","r","i","l">>
May == <<"M","a","y">>
June == <<"J","u","n","e">>
July == <<"J","u","l","y">>
August == <<"A","u","g","u","s","t">>
September == <<"S","e","p","t","e","m","b","e","r">>
October == <<"O","c","t","o","b","e","r">>
November == <<"N","o","v","e","m","b","e","r">>
December == <<"D","e","c","e","m","b","e","r">>

\* the keys of months_order, in the order of their values 1..12
MonthNames == <<January, February, March, April, May, June,
                July, August, September, October, November, December>>

-----------------------------------------------------------------------------
(* merge_events.py: read_csv.                                              *)

\* a file of the file system: whether it exists, and its lines
File(ls) == [exists |-> TRUE, lines |-> ls]
Missing == [exists |-> FALSE, lines |-> <<>>]

\* the branch read_csv takes on the file's name
has_preamble(filename) ==
    str_contains(filename, PublicEvents) \/ str_contains(filename, EventsBackup)

\* the rows DictReader yields: it passes over the lines that parse to no field
RECURSIVE nonblank_rows(_)
nonblank_rows(ls) ==
    IF Len(ls) = 0 THEN <<>>
    ELSE IF csv_readrow(Head(ls)) = <<>> THEN nonblank_rows(Tail(ls))
    ELSE <<csv_readrow(Head(ls))>> \o nonblank_rows(Tail(ls))

\* the event filter of read_csv: TRUE when the row is dropped
skip_event(ev) ==
    \/ ~truthy(ev)
    \/ str_startswith(ev, SubmitAnEvent)
    \/ str_strip(ev) \in {<<>>, CerebralValley}

\* read_csv without the elif of line 45: a row keeps the month it has
tracked_month_own(month, current_month) == month

\* the month read_csv leaves in the row, given the running month
tracked_month(month, current_month) ==
    IF truthy(month) THEN month
    ELSE IF truthy(current_month) THEN current_month
    ELSE month

\* the loop of read_csv over the rows of the reader
RECURSIVE read_loop(_, _, _, _)
read_loop(rows, fieldnames, current_month, events) ==
    IF Len(rows) = 0 THEN events
    ELSE LET r     == Head(rows)
             month == dict_get(fieldnames, r, F_Month)
             ev    == dict_get(fieldnames, r, F_Event)
             row   == Row(tracked_month(month, current_month), ev,
                          dict_get(fieldnames, r, F_Date),
                          dict_get(fieldnames, r, F_Time),
                          dict_get(fieldnames, r, F_Location),
                          dict_get(fieldnames, r, F_Link))
         IN  read_loop(Tail(rows), fieldnames,
                       IF truthy(month) THEN month ELSE current_month,
                       IF skip_event(ev) THEN events ELSE Append(events, row))

read_csv(file, filename) ==
    IF ~file.exists THEN <<>>
    ELSE IF has_preamble(filename)
    THEN LET rest == SubSeq(file.lines, 6, Len(file.lines))
         IN  IF Len(rest) = 0 THEN <<>>
             ELSE read_loop(nonblank_rows(Tail(rest)), csv_readrow(Head(rest)), <<>>, <<>>)
    ELSE read_loop(nonblank_rows(file.lines), FieldNames, <<>>, <<>>)

-----------------------------------------------------------------------------
(* merge_events.py: merge_events.                                          *)

\* the inner loop: whether a candidate duplicates one of the existing rows
is_dupe(tw_event, cv) ==
    \E i \in 1..Len(cv) : is_duplicate(tw_event, cv[i], DefaultThreshold)

\* the loop over the candidates, from the state [merged, added_count,
\* skipped_count]
RECURSIVE merge_loop(_, _, _)
merge_loop(cv, tw, acc) ==
    IF Len(tw) = 0 THEN acc
    ELSE IF is_dupe(Head(tw), cv)
    THEN merge_loop(cv, Tail(tw), [acc EXCEPT !.skipped_count = @ + 1])
    ELSE merge_loop(cv, Tail(tw), [acc EXCEPT !.merged = Append(@, Head(tw)),
                                              !.added_count = @ + 1])

\* merge_events with the break of its inner loop left out: every matching
\* existing row counts as a skip
RECURSIVE merge_loop_no_break(_, _, _)
merge_loop_no_break(cv, tw, acc) ==
    IF Len(tw) = 0 THEN acc
    ELSE IF is_dupe(Head(tw), cv)
    THEN merge_loop_no_break(cv, Tail(tw),
             [acc EXCEPT !.skipped_count =
                 @ + Cardinality({i \in 1..Len(cv) :
                                     is_duplicate(Head(tw), cv[i], DefaultThreshold)})])
    ELSE merge_loop_no_break(cv, Tail(tw), [acc EXCEPT !.merged = Append(@, Head(tw)),
                                                       !.added_count = @ + 1])

merge_rows_no_break(cv, tw) ==
    merge_loop_no_break(cv, tw, [merged |-> cv, added_count |-> 0, skipped_count |-> 0])

\* merge_events testing a candidate against the rows merged so far
RECURSIVE merge_loop_against_merged(_, _, _)
merge_loop_against_merged(cv, tw, acc) ==
    IF Len(tw) = 0 THEN acc
    ELSE IF is_dupe(Head(tw), acc.merged)
    THEN merge_loop_against_merged(cv, Tail(tw), [acc EXCEPT !.skipped_count = @ + 1])
    ELSE merge_loop_against_merged(cv, Tail(tw),
             [acc EXCEPT !.merged = Append(@, Head(tw)), !.added_count = @ + 1])

merge_rows_against_merged(cv, tw) ==
    merge_loop_against_merged(cv, tw, [merged |-> cv, added_count |-> 0, skipped_count |-> 0])

\* merge_events after its two reads
merge_rows(cv, tw) ==
    merge_loop(cv, tw, [merged |-> cv, added_count |-> 0, skipped_count |-> 0])

merge_events(cerebral_valley_file, cv_name, tech_week_file, tw_name) ==
    merge_rows(read_csv(cerebral_valley_file, cv_name), read_csv(tech_week_file, tw_name))

-----------------------------------------------------------------------------
(* merge_events.py: sort_events and write_output_csv.                      *)

\* months_order.get(month, 1)
month_number(month) ==
    IF \E i \in 1..12 : MonthNames[i] = month
    THEN CHOOSE i \in 1..12 : MonthNames[i] = month
    ELSE 1

\* re.search(r'\d+', date_str): the first run of digits, or <<>>
first_digits(s) ==
    LET ds == {i \in 1..Len(s) : is_digit(s[i])}
    IN  IF ds = {} THEN <<>>
        ELSE LET a == Min(ds)
                 b == Max({j \in a..Len(s) : \A k \in a..j : is_digit(s[k])})
             IN  SubSeq(s, a, b)

day_number(date_str) ==
    IF first_digits(date_str) = <<>> THEN 1 ELSE digits_value(first_digits(date_str))

get_sort_key(e) == <<month_number(e.Month), day_number(e.Date)>>

\* Python's order of two tuples of two integers
key_le(k1, k2) == k1[1] < k2[1] \/ (k1[1] = k2[1] /\ k1[2] <= k2[2])

remove_at(s, i) == SubSeq(s, 1, i - 1) \o SubSeq(s, i + 1, Len(s))

\* a sort that is not stable: of the rows of the least key the last comes
\* first
RECURSIVE sort_events_last_tie(_)
sort_events_last_tie(events) ==
    IF Len(events) = 0 THEN <<>>
    ELSE LET least == {i \in 1..Len(events) :
                          \A j \in 1..Len(events) :
                              key_le(get_sort_key(events[i]), get_sort_key(events[j]))}
             i == Max(least)
         IN  <<events[i]>> \o sort_events_last_tie(remove_at(events, i))

\* sorted(events, key=get_sort_key): stable, so the first row of the least
\* key comes first
RECURSIVE sort_events(_)
sort_events(events) ==
    IF Len(events) = 0 THEN <<>>
    ELSE LET least == {i \in 1..Len(events) :
                          \A j \in 1..Len(events) :
                              key_le(get_sort_key(events[i]), get_sort_key(events[j]))}
             i == Min(least)
         IN  <<events[i]>> \o sort_events(remove_at(events, i))

\* the Month cell of a written row, given the running month
display_month(month, current_month) ==
    IF month # <<>> /\ month # current_month THEN month ELSE <<>>

\* the running month after a row, were the test of line 171 only
\* "month != current_month"
next_month_any(month, current_month) ==
    IF month # current_month THEN month ELSE current_month

\* the running month after a row
next_month(month, current_month) ==
    IF month # <<>> /\ month # current_month THEN month ELSE current_month

\* the loop of write_output_csv over the sorted rows
RECURSIVE write_rows(_, _)
write_rows(rows, current_month) ==
    IF Len(rows) = 0 THEN <<>>
    ELSE LET e == Head(rows)
         IN  <<csv_writerow(<<display_month(e.Month, current_month), e.Event,
                              e.Date, e.Time, e.Location, e.Link>>)>>
             \o write_rows(Tail(rows), next_month(e.Month, current_month))

\* the file write_output_csv leaves
write_output_csv(events) ==
    File(WrittenPreamble \o write_rows(sort_events(events), NoneValue))

-----------------------------------------------------------------------------
(* parse_tech_week_html.py: parse_event_item.                              *)

Jan == <<"J","a","n">>
Feb == <<"F","e","b">>
Mar == <<"M","a","r">>
Apr == <<"A","p","r">>
Jun == <<"J","u","n">>
Jul == <<"J","u","l">>
Aug == <<"A","u","g">>
Sep == <<"S","e","p">>
Oct == <<"O","c","t">>
Nov == <<"N","o","v">>
Dec == <<"D","e","c">>

\* the list months of parse_event_item, which is also the keys of month_map
\* in the order of MonthNames
MonthAbbrevs == <<Jan, Feb, Mar, Apr, May, Jun, Jul, Aug, Sep, Oct, Nov, Dec>>

Bullet == <<"U+00B7">>
Sponsored == <<"S","p","o","n","s","o","r","e","d">>
DefaultLocation == <<"S","a","n"," ","F","r","a","n","c","i","s","c","o",","," ","C","A">>
Amp == <<"&">>
AmpEntity == <<"&","a","m","p",";">>

\* An event container, as parse_event_item probes it.  name, hosts, href and
\* neighborhood are the stripped text of the element (NoneValue when the
\* element is absent); sponsored_group is "absent", "visible" or "invisible";
\* date_wrapper is DateWrapper(elems), elems the sequence of its
\* text-size-12 elements, each [text, invisible], or NoWrapper.
Container(n, h, s, d, u, nb) ==
    [name |-> n, hosts |-> h, sponsored_group |-> s, date_wrapper |-> d,
     href |-> u, neighborhood |-> nb]

Fragment(t, inv) == [text |-> t, invisible |-> inv]
DateWrapper(elems) == [present |-> TRUE, elems |-> elems]
NoWrapper == [present |-> FALSE, elems |-> <<>>]

\* html.unescape, for the one entity of the model's alphabet
html_unescape(s) == str_replace(s, AmpEntity, Amp)

is_month_abbrev(text) == \E i \in 1..12 : MonthAbbrevs[i] = text

\* a month_map that expands nothing
full_month_name_same(month) == month

\* month_map.get(month, month)
full_month_name(month) ==
    IF is_month_abbrev(month)
    THEN MonthNames[CHOOSE i \in 1..12 : MonthAbbrevs[i] = month]
    ELSE month

\* whether int(text) succeeds: an optional sign and decimal digits
int_parses(text) ==
    LET body == IF Len(text) > 0 /\ text[1] \in {"+", "-"} THEN Tail(text) ELSE text
    IN  Len(body) > 0 /\ \A i \in 1..Len(body) : is_digit(body[i])

\* int(text), when it succeeds
int_value(text) ==
    IF text[1] = "-" THEN 0 - digits_value(Tail(text))
    ELSE IF text[1] = "+" THEN digits_value(Tail(text))
    ELSE digits_value(text)

\* the texts of the date wrapper that the scan keeps
RECURSIVE date_texts(_)
date_texts(frags) ==
    IF Len(frags) = 0 THEN <<>>
    ELSE LET f == Head(frags)
         IN  IF f.invisible THEN date_texts(Tail(frags))
             ELSE IF f.text # <<>> /\ f.text \notin {Bullet, Sponsored}
             THEN <<f.text>> \o date_texts(Tail(frags))
             ELSE date_texts(Tail(frags))

has_am_pm(text) ==
    str_contains(str_lower(text), <<"a","m">>) \/ str_contains(str_lower(text), <<"p","m">>)

\* the scan of the kept texts from index i, st = [month, day_num, time]
\* (NoneValue for a month or a time not found; day_num is [set, value])
RECURSIVE scan_date_texts(_, _, _)
scan_date_texts(texts, i, st) ==
    IF i > Len(texts) THEN st
    ELSE LET text == texts[i]
             st1  == IF is_month_abbrev(text)
                     THEN [st EXCEPT !.month = text,
                                     !.day_num =
                                        IF i + 1 <= Len(texts) /\ int_parses(texts[i + 1])
                                        THEN [set |-> TRUE, value |-> int_value(texts[i + 1])]
                                        ELSE @]
                     ELSE st
             st2  == IF has_am_pm(text) THEN [st1 EXCEPT !.time = text] ELSE st1
         IN  scan_date_texts(texts, i + 1, st2)

\* the record fields the date wrapper sets: [month, day, date, time]
parse_date_wrapper(wrapper) ==
    LET texts == IF wrapper.present THEN date_texts(wrapper.elems) ELSE <<>>
        st    == scan_date_texts(texts, 1,
                     [month |-> NoneValue, day_num |-> [set |-> FALSE, value |-> 0],
                      time |-> NoneValue])
        found == Len(texts) >= 3 /\ st.month # NoneValue
        day   == found /\ st.day_num.set /\ st.day_num.value # 0
    IN  [month |-> IF found THEN st.month ELSE <<>>,
         day   |-> IF day THEN int_str(st.day_num.value) ELSE <<>>,
         date  |-> IF day THEN full_month_name(st.month) \o <<" ">> \o int_str(st.day_num.value)
                   ELSE <<>>,
         time  |-> IF found /\ st.time # NoneValue
                   THEN str_replace(st.time, <<" ">>, <<>>) ELSE <<>>]

parse_event_item(item) ==
    LET d == parse_date_wrapper(item.date_wrapper)
    IN  [name      |-> IF item.name = NoneValue THEN <<>> ELSE html_unescape(item.name),
         hosts     |-> IF item.hosts = NoneValue THEN <<>> ELSE html_unescape(item.hosts),
         date      |-> d.date,
         time      |-> d.time,
         location  |-> IF truthy(item.neighborhood)
                       THEN item.neighborhood \o <<",", " ">> \o DefaultLocation
                       ELSE DefaultLocation,
         url       |-> IF truthy(item.href) THEN item.href ELSE <<>>,
         sponsored |-> item.sponsored_group = "visible",
         month     |-> d.month,
         day       |-> d.day]

-----------------------------------------------------------------------------
(* parse_tech_week_html.py: format_for_csv, save_to_csv and main.          *)

\* the title of a format_for_csv that appends the marker to every name
mark_title_always(name) == name \o SpaceMarker

\* the title format_for_csv gives a name
mark_title(name) ==
    IF str_contains(name, Marker) THEN name ELSE name \o SpaceMarker

\* the loop of format_for_csv, current_month starting as None
RECURSIVE format_loop(_, _)
format_loop(evs, current_month) ==
    IF Len(evs) = 0 THEN <<>>
    ELSE LET e     == Head(evs)
             month == IF e.month # <<>> THEN full_month_name(e.month) ELSE e.month
         IN  IF e.name = <<>> THEN format_loop(Tail(evs), current_month)
             ELSE <<Row(IF month # current_month THEN month ELSE <<>>,
                        mark_title(e.name), e.date, e.time, e.location, e.url)>>
                  \o format_loop(Tail(evs), IF month # <<>> THEN month ELSE current_month)

format_for_csv(evs) == format_loop(evs, NoneValue)

\* parse_date_for_sort of main
parse_date_for_sort(e) ==
    <<IF \E i \in 1..12 : MonthNames[i] = e.month \/ MonthAbbrevs[i] = e.month
      THEN CHOOSE i \in 1..12 : MonthNames[i] = e.month \/ MonthAbbrevs[i] = e.month
      ELSE 1,
      IF e.day # <<>> /\ int_parses(e.day) THEN int_value(e.day) ELSE 1>>

\* events.sort(key=parse_date_for_sort): stable
RECURSIVE sort_records(_)
sort_records(evs) ==
    IF Len(evs) = 0 THEN <<>>
    ELSE LET least == {i \in 1..Len(evs) :
                          \A j \in 1..Len(evs) :
                              key_le(parse_date_for_sort(evs[i]), parse_date_for_sort(evs[j]))}
             i == Min(least)
         IN  <<evs[i]>> \o sort_records(remove_at(evs, i))

\* the lines save_to_csv writes: no header
RECURSIVE save_lines(_)
save_lines(rows) ==
    IF Len(rows) = 0 THEN <<>>
    ELSE <<csv_writerow(<<Head(rows).Month, Head(rows).Event, Head(rows).Date,
                          Head(rows).Time, Head(rows).Location, Head(rows).Link>>)>>
         \o save_lines(Tail(rows))

-----------------------------------------------------------------------------
(* Inputs of the modelled runs.                                            *)

T_AIMeetup == <<"A","I"," ","M","e","e","t","u","p">>
T_AIMeetupTW == <<"A","I"," ","M","e","e","t","u","p"," ","[","T","e","c","h"," ","W","e","e","k","]">>
T_aimeetups == <<"a","i"," ","m","e","e","t","u","p","s">>
T_PaddedAIMeetup == <<" "," ","A","I"," ","M","e","e","t","u","p"," "," ">>
T_FoundersDinner == <<"F","o","u","n","d","e","r","s"," ","D","i","n","n","e","r">>
T_FoundersBrunch == <<"F","o","u","n","d","e","r","s"," ","B","r","u","n","c","h">>
T_PartyBig == <<"P","a","r","t","y",","," ","b","i","g">>
T_SubmitBang == <<"S","u","b","m","i","t"," ","a","n"," ","e","v","e","n","t","!"," ">>
T_March5 == <<"M","a","r","c","h"," ","5">>
T_March6 == <<"M","a","r","c","h"," ","6">>
T_January3 == <<"J","a","n","u","a","r","y"," ","3">>
T_3rd == <<"3","r","d">>
T_TBD == <<"T","B","D">>
T_20Jan == <<"2","0"," ","J","a","n">>
T_Smarch == <<"S","m","a","r","c","h">>
T_14 == <<"1","4">>
T_3 == <<"3">>
T_2 == <<"2">>
T_Oct10to12 == <<"O","c","t"," ","1","0","-","1","2">>
T_6 == <<"6">>
T_06 == <<"0","6">>
T_0 == <<"0">>
T_October6 == <<"O","c","t","o","b","e","r"," ","6">>
T_6pm == <<"6",":","0","0"," ","p","m">>
T_7PM == <<"7"," ","P","M">>
T_9am == <<"9","a","m">>
T_Mon == <<"M","o","n">>
T_RnD == <<"R","&","a","m","p",";","D"," ","N","i","g","h","t">>
T_Url == <<"h","t","t","p","s",":","/","/","x",".","y">>
T_SoMa == <<"S","o","M","a">>
T_a16z == <<"a","1","6","z">>

\* the lines csv.writer writes for rows, one line per row
row_lines(rows) ==
    [i \in 1..Len(rows) |->
        csv_writerow(<<rows[i].Month, rows[i].Event, rows[i].Date,
                       rows[i].Time, rows[i].Location, rows[i].Link>>)]

\* the sequences over S of length at most n
SeqsUpTo(S, n) == UNION {[1..k -> S] : k \in 0..n}

\* the largest lists of existing rows and of candidate rows merged
MaxExisting == 2
MaxCandidates == 2
\* the largest list of rows sorted and written
MaxRows == 3
\* the most data lines of a file read
MaxLines == 3
\* the most rows of each file before the merger's first run, and its runs
MaxFileRows == 2
MaxRuns == 2
\* the most event containers of a page
MaxItems == 2

-----------------------------------------------------------------------------
(* The values of the variables a run does not use.                         *)

NoEvent ==
    [name |-> <<>>, hosts |-> <<>>, date |-> <<>>, time |-> <<>>, location |-> <<>>,
     url |-> <<>>, sponsored |-> FALSE, month |-> <<>>, day |-> <<>>]

DupIdle ==
    /\ event1 = Row(<<>>, <<>>, <<>>, <<>>, <<>>, <<>>)
    /\ event2 = Row(<<>>, <<>>, <<>>, <<>>, <<>>, <<>>)
    /\ threshold = DefaultThreshold
    /\ dup = FALSE

MergeIdle ==
    /\ cv_events = <<>>
    /\ tw_events = <<>>
    /\ merged = <<>>
    /\ added_count = 0
    /\ skipped_count = 0

WriteIdle ==
    /\ sorted_events = <<>>
    /\ runs = 0
    /\ first_pub = Missing
    /\ first_rows = <<>>

ExtractIdle ==
    /\ html = <<>>
    /\ idx = 0
    /\ event = NoEvent
    /\ parsed = <<>>
    /\ formatted = <<>>

dup_vars == <<event1, event2, threshold, dup>>
merge_vars == <<cv_events, tw_events, merged, added_count, skipped_count>>
write_vars == <<sorted_events, runs, first_pub, first_rows>>
extract_vars == <<html, idx, event, parsed, formatted>>

-----------------------------------------------------------------------------
(* is_duplicate on a pair of rows and a threshold.                         *)

DupTitles ==
    {T_AIMeetup, T_AIMeetupTW, T_aimeetups, T_PaddedAIMeetup,
     T_FoundersDinner, T_FoundersBrunch, Marker, <<>>}

\* 0, 0.5, 0.8, 1 and 1.2
Thresholds ==
    {[num |-> 0, den |-> 1], [num |-> 1, den |-> 2], DefaultThreshold,
     [num |-> 1, den |-> 1], [num |-> 6, den |-> 5]}

TitleRow(title) == Row(<<>>, title, <<>>, <<>>, <<>>, <<>>)

InitDup ==
    /\ pc = "is_duplicate"
    /\ event1 \in {TitleRow(t) : t \in DupTitles}
    /\ event2 \in {TitleRow(t) : t \in DupTitles}
    /\ threshold \in Thresholds
    /\ dup = FALSE
    /\ pub_file = Missing /\ tw_file = Missing
    /\ MergeIdle /\ WriteIdle /\ ExtractIdle

IsDuplicateCall ==
    /\ pc = "is_duplicate"
    /\ dup' = is_duplicate(event1, event2, threshold)
    /\ pc' = "returned"
    /\ UNCHANGED <<event1, event2, threshold, pub_file, tw_file,
                   merge_vars, write_vars, extract_vars>>

NextDup == IsDuplicateCall

SpecDup == InitDup /\ [][NextDup]_vars

-----------------------------------------------------------------------------
(* merge_events on the two lists its reads return.                         *)

E_AIMeetup == Row(March, T_AIMeetup, T_March5, T_6pm, <<>>, <<>>)
E_aimeetups == Row(March, T_aimeetups, T_March5, <<>>, <<>>, T_Url)
E_FoundersBrunch == Row(<<>>, T_FoundersBrunch, T_TBD, <<>>, <<>>, <<>>)
C_AIMeetupTW == Row(<<>>, T_AIMeetupTW, T_March6, <<>>, DefaultLocation, T_Url)
C_FoundersDinner == Row(March, T_FoundersDinner \o SpaceMarker, T_March6, T_7PM, DefaultLocation, <<>>)
C_PartyBig == Row(October, T_PartyBig \o SpaceMarker, <<>>, <<>>, DefaultLocation, <<>>)

ExistingPool == {E_AIMeetup, E_aimeetups, E_FoundersBrunch}
CandidatePool == {C_AIMeetupTW, C_FoundersDinner, C_PartyBig}

\* the published file holds the five banner lines, the header and the
\* existing rows; the intermediate file holds the candidate rows
InitMerge ==
    /\ pc = "merge_events"
    /\ \E existing \in SeqsUpTo(ExistingPool, MaxExisting) :
           pub_file = File(MainTemplate \o row_lines(existing))
    /\ \E candidates \in SeqsUpTo(CandidatePool, MaxCandidates) :
           tw_file = File(row_lines(candidates))
    /\ MergeIdle /\ DupIdle /\ WriteIdle /\ ExtractIdle

\* merge_events(cerebral_valley_file, tech_week_file): both reads and the
\* merge of what they return
MergeEventsCall ==
    /\ pc = "merge_events"
    /\ LET merged_events == merge_events(pub_file, PublishedPath, tw_file, TechWeekPath)
       IN  /\ merged' = merged_events.merged
           /\ added_count' = merged_events.added_count
           /\ skipped_count' = merged_events.skipped_count
    /\ cv_events' = read_csv(pub_file, PublishedPath)
    /\ tw_events' = read_csv(tw_file, TechWeekPath)
    /\ pc' = "returned"
    /\ UNCHANGED <<pub_file, tw_file, dup_vars, write_vars, extract_vars>>

NextMerge == MergeEventsCall

SpecMerge == InitMerge /\ [][NextMerge]_vars

-----------------------------------------------------------------------------
(* Claims about is_duplicate and merge_events.                             *)

\* the cleaned titles of is_duplicate's two rows are equal ignoring case
SameCleanTitle(e1, e2) ==
    str_lower(str_strip(str_replace(e1.Event, Marker, <<>>)))
        = str_lower(str_strip(str_replace(e2.Event, Marker, <<>>)))

\* C6: two rows whose titles, with the "[Tech Week]" marker removed and
\* whitespace trimmed, are equal ignoring case are duplicates for every
\* threshold, thresholds above 1 included.
C6_ExactMatchAnyThreshold ==
    (pc = "returned" /\ SameCleanTitle(event1, event2)) => dup = TRUE

\* is_duplicate has returned for "AI Meetup [Tech Week]" and "  AI Meetup  "
\* under the threshold 1.2, which no ratio reaches
C6_Witness ==
    /\ pc = "returned"
    /\ event1.Event = T_AIMeetupTW
    /\ event2.Event = T_PaddedAIMeetup
    /\ threshold = [num |-> 6, den |-> 5]
    /\ dup = TRUE

\* C1: the list merge_events returns has len(existing) + len(candidates)
\* - skipped entries, and begins with the existing rows, in their order and
\* with every field as it was.
C1_MergeKeepsExisting ==
    pc = "returned" =>
        /\ Len(merged) = Len(cv_events) + Len(tw_events) - skipped_count
        /\ SubSeq(merged, 1, Len(cv_events)) = cv_events

\* a merge of two existing rows with two candidates, one of them skipped as
\* a duplicate of both existing rows
C1_Witness ==
    /\ pc = "returned"
    /\ cv_events = <<E_AIMeetup, E_aimeetups>>
    /\ Len(tw_events) = 2
    /\ tw_events[1] = C_FoundersDinner
    /\ tw_events[2].Event = T_AIMeetupTW
    /\ skipped_count = 1
    /\ merged = <<E_AIMeetup, E_aimeetups, C_FoundersDinner>>

\* the duplicate test as the claim words it: cleaned titles equal ignoring
\* case, or of similarity at least 0.8
ClaimedDuplicate(c, e) ==
    \/ SameCleanTitle(c, e)
    \/ LET ratio == similarity(clean_title(c.Event), clean_title(e.Event))
       IN  5 * ratio.num >= 4 * ratio.den

MatchesExisting(c) == \E i \in 1..Len(cv_events) : ClaimedDuplicate(c, cv_events[i])

IsNewCandidate(c) == ~MatchesExisting(c)

\* C2: a candidate is appended exactly when it duplicates no existing row;
\* one that duplicates an existing row is dropped and counted once;
\* candidates are compared with the existing rows only, and the accepted
\* ones follow the existing rows in candidate order.  Existing "AI Meetup"
\* with candidate "AI Meetup [Tech Week]" gives a list of length 1.
C2_AppendsExactlyNonDuplicates ==
    pc = "returned" =>
        LET accepted == SelectSeq(tw_events, IsNewCandidate)
        IN  /\ SubSeq(merged, Len(cv_events) + 1, Len(merged)) = accepted
            /\ added_count = Len(accepted)
            /\ skipped_count = Len(tw_events) - Len(accepted)
            /\ (cv_events = <<E_AIMeetup>> /\ tw_events = <<C_AIMeetupTW>>) => Len(merged) = 1

\* the scenario of the claim has been merged
C2_Witness ==
    /\ pc = "returned"
    /\ cv_events = <<E_AIMeetup>>
    /\ tw_events = <<C_AIMeetupTW>>
    /\ merged = <<E_AIMeetup>>
    /\ skipped_count = 1

-----------------------------------------------------------------------------
(* write_output_csv on a merged list: the sort and the written file.       *)

S_Feb14 == Row(February, T_FoundersDinner, T_14, T_7PM, <<>>, <<>>)
S_Jan3 == Row(January, T_AIMeetup, T_3, <<>>, <<>>, <<>>)
S_Feb2 == Row(February, T_PartyBig, T_2, <<>>, DefaultLocation, <<>>)
S_Blank3rd == Row(<<>>, T_AIMeetupTW, T_3rd, <<>>, <<>>, T_Url)
S_Unknown == Row(T_Smarch, T_FoundersBrunch, T_TBD, <<>>, <<>>, <<>>)
S_Jan20 == Row(January, T_aimeetups, T_20Jan, T_6pm, <<>>, <<>>)
S_Oct10 == Row(October, T_RnD, T_Oct10to12, <<>>, <<>>, <<>>)

SortPool == {S_Feb14, S_Jan3, S_Feb2, S_Blank3rd, S_Unknown, S_Jan20, S_Oct10}

InitSort ==
    /\ pc = "write_output_csv"
    /\ merged \in SeqsUpTo(SortPool, MaxRows)
    /\ cv_events = <<>> /\ tw_events = <<>> /\ added_count = 0 /\ skipped_count = 0
    /\ pub_file = Missing /\ tw_file = Missing
    /\ DupIdle /\ WriteIdle /\ ExtractIdle

\* write_output_csv(events, output_file) on the merged list
WriteOutputCsvCall ==
    /\ pc = "write_output_csv"
    /\ sorted_events' = sort_events(merged)
    /\ pub_file' = write_output_csv(merged)
    /\ pc' = "returned"
    /\ UNCHANGED <<tw_file, cv_events, tw_events, merged, added_count, skipped_count,
                   runs, first_pub, first_rows, dup_vars, extract_vars>>

NextSort == WriteOutputCsvCall

SpecSort == InitSort /\ [][NextSort]_vars

-----------------------------------------------------------------------------
(* Claims about sort_events and the Month column write_output_csv writes.  *)

\* the (month-number, day-number) the claim gives each row of SortPool
ClaimedKey(e) ==
    CASE e = S_Feb14 -> <<2, 14>>
      [] e = S_Jan3 -> <<1, 3>>
      [] e = S_Feb2 -> <<2, 2>>
      [] e = S_Blank3rd -> <<1, 3>>
      [] e = S_Unknown -> <<1, 1>>
      [] e = S_Jan20 -> <<1, 20>>
      [] e = S_Oct10 -> <<10, 10>>

KeyBefore(k1, k2) == k1[1] < k2[1] \/ (k1[1] = k2[1] /\ k1[2] < k2[2])

\* the rows of s whose claimed key is k, in the order of s
RowsOfKey(s, k) ==
    LET HasKey(e) == ClaimedKey(e) = k
    IN  SelectSeq(s, HasKey)

\* C4: sort_events returns a permutation of its input in ascending order
\* of (month-number, day-number), month-number from the 12-month table (1
\* for a month outside it) and day-number the first integer in Date (1 when
\* Date has no digit); rows of equal key keep their input order.  The rows
\* (February, 14), (January, 3), (February, 2) come out as January 3,
\* February 2, February 14.
C4_StableSortByMonthDay ==
    pc = "returned" =>
        /\ Len(sorted_events) = Len(merged)
        /\ \A i \in 1..Len(sorted_events) : \A j \in 1..Len(sorted_events) :
               i < j => ~KeyBefore(ClaimedKey(sorted_events[j]), ClaimedKey(sorted_events[i]))
        /\ \A e \in SortPool :
               RowsOfKey(sorted_events, ClaimedKey(e)) = RowsOfKey(merged, ClaimedKey(e))
        /\ merged = <<S_Feb14, S_Jan3, S_Feb2>> => sorted_events = <<S_Jan3, S_Feb2, S_Feb14>>

\* the scenario of the claim has been sorted
C4_Witness ==
    /\ pc = "returned"
    /\ merged = <<S_Feb14, S_Jan3, S_Feb2>>
    /\ sorted_events = <<S_Jan3, S_Feb2, S_Feb14>>

\* the Month cell of the k-th row of the written body
WrittenMonth(k) == csv_readrow(pub_file.lines[Len(WrittenPreamble) + k])[1]

\* the running month of the claim after the first k sorted rows: it changes
\* at every row whose month differs from it
RECURSIVE ClaimedRunning(_)
ClaimedRunning(k) ==
    IF k = 0 THEN NoneValue
    ELSE IF sorted_events[k].Month = ClaimedRunning(k - 1) THEN ClaimedRunning(k - 1)
    ELSE sorted_events[k].Month

\* C5 as stated: the Month cell of a row is blank when the row's month
\* equals the running month, and otherwise it is the row's month, which
\* becomes the running month.
C5_Original ==
    pc = "returned" =>
        /\ Len(pub_file.lines) = Len(WrittenPreamble) + Len(sorted_events)
        /\ \A k \in 1..Len(sorted_events) :
               WrittenMonth(k) = IF sorted_events[k].Month = ClaimedRunning(k - 1)
                                 THEN <<>>
                                 ELSE sorted_events[k].Month

\* the month of the nearest row before row k that has one, NoneValue when
\* there is none
LastNamedMonth(k) ==
    LET named == {j \in 1..(k - 1) : sorted_events[j].Month # <<>>}
    IN  IF named = {} THEN NoneValue ELSE sorted_events[Max(named)].Month

\* C5 amended: the Month cell of a row is blank when the row has no month
\* or its month equals the running month, and otherwise it is the row's
\* month, which becomes the running month; a row without a month leaves the
\* running month as it is.  So a Month cell is filled only on the first row
\* of a new month.
C5_BlankOrRunningMonth ==
    pc = "returned" =>
        /\ Len(pub_file.lines) = Len(WrittenPreamble) + Len(sorted_events)
        /\ \A k \in 1..Len(sorted_events) :
               WrittenMonth(k) = IF \/ sorted_events[k].Month = <<>>
                                    \/ sorted_events[k].Month = LastNamedMonth(k)
                                 THEN <<>>
                                 ELSE sorted_events[k].Month

\* a row without a month has been written between two January rows, and
\* the second January row has a blank Month cell
C5_Witness ==
    /\ pc = "returned"
    /\ sorted_events = <<S_Jan3, S_Blank3rd, S_Jan20>>
    /\ WrittenMonth(1) = January
    /\ WrittenMonth(2) = <<>>
    /\ WrittenMonth(3) = <<>>

-----------------------------------------------------------------------------
(* read_csv on a published file and on an intermediate file.               *)

R_Placeholder == Row(<<>>, CerebralValley, <<>>, <<>>, <<>>, <<>>)
R_Submit == Row(February, T_SubmitBang, <<>>, <<>>, <<>>, T_Url)
R_NoEvent == Row(January, <<>>, T_January3, <<>>, <<>>, <<>>)
R_Blank == Row(<<>>, <<>>, <<>>, <<>>, <<>>, <<>>)

ReadPool == {E_AIMeetup, E_FoundersBrunch, R_Placeholder, R_Submit, C_PartyBig, R_NoEvent}

\* the line of a row of ReadPool
row_line(r) == row_lines(<<r>>)[1]

\* the data lines of a file: lines of rows of ReadPool, and empty lines
LinePool == {row_line(r) : r \in ReadPool} \cup {<<>>}

\* either both files are missing, or the same data lines are in a published
\* file, under the banner and the header, and in an intermediate file
InitRead ==
    /\ pc = "read_csv"
    /\ \/ pub_file = Missing /\ tw_file = Missing
       \/ \E ls \in SeqsUpTo(LinePool, MaxLines) :
              /\ pub_file = File(MainTemplate \o ls)
              /\ tw_file = File(ls)
    /\ MergeIdle /\ DupIdle /\ WriteIdle /\ ExtractIdle

\* read_csv('public/events.csv')
ReadPublished ==
    /\ pc = "read_csv"
    /\ cv_events' = read_csv(pub_file, PublishedPath)
    /\ pc' = "returned"
    /\ UNCHANGED <<pub_file, tw_file, tw_events, merged, added_count, skipped_count,
                   dup_vars, write_vars, extract_vars>>

\* read_csv('tech_week_events.csv')
ReadIntermediate ==
    /\ pc = "read_csv"
    /\ tw_events' = read_csv(tw_file, TechWeekPath)
    /\ pc' = "returned"
    /\ UNCHANGED <<pub_file, tw_file, cv_events, merged, added_count, skipped_count,
                   dup_vars, write_vars, extract_vars>>

NextRead == ReadPublished \/ ReadIntermediate

SpecRead == InitRead /\ [][NextRead]_vars

-----------------------------------------------------------------------------
(* Claim about read_csv.                                                   *)

\* the record of a data line: the row of ReadPool it was written from; an
\* empty line holds no field
FileRecord(line) ==
    IF line = <<>> THEN R_Blank ELSE CHOOSE r \in ReadPool : row_line(r) = line

\* the month the claim gives the j-th data line: its own, or that of the
\* nearest earlier line that has one, or none
ClaimedMonth(ls, j) ==
    LET named == {i \in 1..j : FileRecord(ls[i]).Month # <<>>}
    IN  IF named = {} THEN <<>> ELSE FileRecord(ls[Max(named)]).Month

HasSubmitPrefix(title) == Len(title) >= 15 /\ SubSeq(title, 1, 15) = SubmitAnEvent

\* what the claim says of the rows read from the data lines ls
ReadAsClaimed(rows, ls) ==
    /\ \A i \in 1..Len(rows) :
           /\ rows[i].Event # <<>>
           /\ rows[i].Event # CerebralValley
           /\ ~HasSubmitPrefix(rows[i].Event)
    /\ \E f \in [1..Len(rows) -> 1..Len(ls)] :
           /\ \A i \in 1..Len(rows) : \A j \in 1..Len(rows) : i < j => f[i] < f[j]
           /\ \A i \in 1..Len(rows) :
                  rows[i] = [FileRecord(ls[f[i]]) EXCEPT !.Month = ClaimedMonth(ls, f[i])]

\* C9: every row read_csv returns has a non-empty Event that is not
\* "Cerebral Valley" and does not start with "Submit an event"; its Month
\* is its own when it has one and otherwise the latest non-empty Month of
\* an earlier row of the file, empty when there is none; the rows returned
\* are in file order.
C9_ReadFiltersAndInheritsMonth ==
    pc = "returned" =>
        /\ ReadAsClaimed(cv_events, tw_file.lines)
        /\ ReadAsClaimed(tw_events, tw_file.lines)

\* a row without a month has been read after a dropped "Submit an event"
\* row of February, and carries February
C9_Witness ==
    /\ pc = "returned"
    /\ tw_file.lines = <<row_line(R_Submit), row_line(E_FoundersBrunch), row_line(C_PartyBig)>>
    /\ cv_events = <<[E_FoundersBrunch EXCEPT !.Month = February], C_PartyBig>>

-----------------------------------------------------------------------------
(* The merger's main, run again and again on the same two files.           *)

\* the published file is missing or holds the five banner lines, the header
\* and some rows; the intermediate file is missing or holds candidate rows
Init ==
    /\ pc = "main"
    /\ \/ pub_file = Missing
       \/ \E existing \in SeqsUpTo(ExistingPool, MaxFileRows) :
              pub_file = File(MainTemplate \o row_lines(existing))
    /\ \/ tw_file = Missing
       \/ \E candidates \in SeqsUpTo(CandidatePool, MaxFileRows) :
              tw_file = File(row_lines(candidates))
    /\ MergeIdle /\ DupIdle /\ WriteIdle /\ ExtractIdle

\* main(): create the published file when it is missing, merge the two
\* files, sort and write the result over the published file
Main ==
    /\ pc = "main"
    /\ runs < MaxRuns
    /\ LET cerebral_valley_file == IF pub_file.exists THEN pub_file ELSE File(MainTemplate)
           merged_events == merge_events(cerebral_valley_file, PublishedPath,
                                         tw_file, TechWeekPath)
       IN  /\ cv_events' = read_csv(cerebral_valley_file, PublishedPath)
           /\ tw_events' = read_csv(tw_file, TechWeekPath)
           /\ merged' = merged_events.merged
           /\ added_count' = merged_events.added_count
           /\ skipped_count' = merged_events.skipped_count
           /\ sorted_events' = sort_events(merged_events.merged)
           /\ pub_file' = write_output_csv(merged_events.merged)
           /\ first_pub' = IF runs = 0 THEN write_output_csv(merged_events.merged)
                           ELSE first_pub
           /\ first_rows' = IF runs = 0 THEN merged_events.merged ELSE first_rows
    /\ runs' = runs + 1
    /\ UNCHANGED <<pc, tw_file, dup_vars, extract_vars>>

Next == Main

Spec == Init /\ [][Next]_vars

-----------------------------------------------------------------------------
(* Claims about a written file read again, and about a second run.         *)

\* the Event, Date, Time (PST), Location and Link values of rows
ValueSet(rows) ==
    {<<rows[i].Event, rows[i].Date, rows[i].Time, rows[i].Location, rows[i].Link>> :
        i \in 1..Len(rows)}

\* C3: the rows read_csv returns, in its published mode, from the file
\* write_output_csv wrote carry the same set of Event, Date, Time (PST),
\* Location and Link values as the rows that were written.  The second run
\* of main reads the file its first run wrote.
C3_WriteThenReadKeepsValues ==
    runs = 2 => ValueSet(cv_events) = ValueSet(first_rows)

\* C10: a second run of main on the same intermediate file leaves the
\* published file as the first run left it: it reads back every row the
\* first run wrote, adds no candidate again and loses no row.
C10_SecondRunChangesNothing ==
    runs = 2 =>
        /\ cv_events = sort_events(first_rows)
        /\ added_count = 0
        /\ pub_file = first_pub

-----------------------------------------------------------------------------
(* The extractor: parse_tech_week_html over the containers of a page, then *)
(* the sort, the formatting and the save of its main.                      *)

Shown(t) == Fragment(t, FALSE)
Hidden(t) == Fragment(t, TRUE)

K_Plain ==
    Container(T_AIMeetup, T_a16z, "absent",
              DateWrapper(<<Shown(T_Mon), Shown(Oct), Shown(T_6), Shown(T_6pm)>>),
              T_Url, T_SoMa)
K_Sponsored ==
    Container(T_RnD, NoneValue, "visible",
              DateWrapper(<<Shown(T_Mon), Shown(Sponsored), Shown(Bullet), Hidden(Dec),
                            Shown(Oct), Shown(T_06), Shown(Bullet), Shown(T_7PM)>>),
              NoneValue, NoneValue)
K_NoName ==
    Container(NoneValue, T_a16z, "invisible",
              DateWrapper(<<Shown(T_Mon), Shown(Oct), Shown(T_6), Shown(T_6pm)>>),
              T_Url, NoneValue)
K_TwoTexts ==
    Container(T_AIMeetupTW, NoneValue, "absent",
              DateWrapper(<<Shown(Oct), Shown(T_6)>>), T_Url, <<>>)
K_DayZero ==
    Container(T_FoundersDinner, NoneValue, "absent",
              DateWrapper(<<Shown(T_Mon), Shown(Nov), Shown(T_0), Shown(T_9am)>>),
              NoneValue, NoneValue)
K_TwoMonths ==
    Container(T_PartyBig, NoneValue, "absent",
              DateWrapper(<<Shown(Oct), Shown(T_6), Shown(Nov), Shown(T_TBD)>>),
              NoneValue, T_SoMa)
K_May ==
    Container(T_FoundersBrunch, NoneValue, "invisible",
              DateWrapper(<<Shown(T_Mon), Shown(May), Shown(T_14), Shown(T_9am)>>),
              T_Url, NoneValue)
K_NoWrapper ==
    Container(T_aimeetups \o SpaceMarker, NoneValue, "absent", NoWrapper, NoneValue, NoneValue)

ContainerPool ==
    {K_Plain, K_Sponsored, K_NoName, K_TwoTexts, K_DayZero, K_TwoMonths, K_May, K_NoWrapper}

\* html is the sequence of calendar-events-item containers of the page
InitExtract ==
    /\ pc = "parse_tech_week_html"
    /\ html \in SeqsUpTo(ContainerPool, MaxItems)
    /\ idx = 0
    /\ event = NoEvent
    /\ parsed = <<>>
    /\ formatted = <<>>
    /\ pub_file = Missing /\ tw_file = Missing
    /\ MergeIdle /\ DupIdle /\ WriteIdle

\* one turn of the loop of parse_tech_week_html
ParseEventItem ==
    /\ pc = "parse_tech_week_html"
    /\ idx < Len(html)
    /\ idx' = idx + 1
    /\ event' = parse_event_item(html[idx + 1])
    /\ parsed' = IF parse_event_item(html[idx + 1]).name # <<>>
                 THEN Append(parsed, parse_event_item(html[idx + 1]))
                 ELSE parsed
    /\ UNCHANGED <<pc, html, formatted, pub_file, tw_file, dup_vars, merge_vars, write_vars>>

\* main of the extractor once the page is parsed: an empty file when there
\* is no event, and otherwise the sort in place, format_for_csv and
\* save_to_csv
FormatAndSave ==
    /\ pc = "parse_tech_week_html"
    /\ idx = Len(html)
    /\ parsed' = sort_records(parsed)
    /\ formatted' = format_for_csv(sort_records(parsed))
    /\ tw_file' = File(save_lines(format_for_csv(sort_records(parsed))))
    /\ pc' = "done"
    /\ UNCHANGED <<html, idx, event, pub_file, dup_vars, merge_vars, write_vars>>

NextExtract == ParseEventItem \/ FormatAndSave

SpecExtract == InitExtract /\ [][NextExtract]_vars


-----------------------------------------------------------------------------
(* Claims about parse_event_item and format_for_csv.                       *)

\* the fragments of the date wrapper the claim keeps: neither invisible,
\* nor the bullet, nor "Sponsored"
KeptFragment(f) == ~f.invisible /\ f.text # Bullet /\ f.text # Sponsored

KeptTexts(item) ==
    LET kept == SelectSeq(item.date_wrapper.elems, KeptFragment)
    IN  [i \in 1..Len(kept) |-> kept[i].text]

\* the full names of the month abbreviations of ContainerPool
ClaimedFullName(abbrev) ==
    CASE abbrev = Oct -> October
      [] abbrev = Nov -> November
      [] abbrev = May -> May
      [] abbrev = Dec -> December

\* the integers the number fragments of ContainerPool parse as, in decimal
ClaimedDay(text) ==
    CASE text = T_6 -> <<"6">>
      [] text = T_06 -> <<"6">>
      [] text = T_0 -> <<"0">>
      [] text = T_14 -> <<"1","4">>

IsAbbrev(text) == text \in {Oct, Nov, May, Dec}
IsNumber(text) == text \in {T_6, T_06, T_0, T_14}

\* the positions of the kept texts that hold a month abbreviation followed
\* by a number
MonthDayAt(texts) ==
    {i \in 1..(Len(texts) - 1) : IsAbbrev(texts[i]) /\ IsNumber(texts[i + 1])}

\* C7 as stated: when the kept fragments of a container hold a month
\* abbreviation followed by an integer, the record parse_event_item returns
\* has the full name of that month as its month and that integer as its day.
C7_Original ==
    (pc = "parse_tech_week_html" /\ idx >= 1) =>
        \A i \in MonthDayAt(KeptTexts(html[idx])) :
            /\ event.month = ClaimedFullName(KeptTexts(html[idx])[i])
            /\ event.day = ClaimedDay(KeptTexts(html[idx])[i + 1])

\* the position of the last month abbreviation of the kept texts, 0 when
\* there is none
LastAbbrevAt(texts) ==
    LET at == {i \in 1..Len(texts) : IsAbbrev(texts[i])}
    IN  IF at = {} THEN 0 ELSE Max(at)

\* C7 amended: when a container has at least three kept fragments and the
\* last month abbreviation among them is followed by a fragment that parses
\* as an integer other than 0, the record parse_event_item returns has that
\* abbreviation as its month, the integer in decimal as its day, and the
\* full month name, a space and the integer as its date.
C7_AbbreviationDayAndDate ==
    (pc = "parse_tech_week_html" /\ idx >= 1) =>
        LET texts == KeptTexts(html[idx])
            i     == LastAbbrevAt(texts)
        IN  (Len(texts) >= 3 /\ i \in MonthDayAt(texts) /\ texts[i + 1] # T_0) =>
                /\ event.month = texts[i]
                /\ event.day = ClaimedDay(texts[i + 1])
                /\ event.date = ClaimedFullName(texts[i]) \o <<" ">> \o ClaimedDay(texts[i + 1])

\* the sponsored container, whose kept fragments are Mon, Oct, 06 and 7 PM,
\* has been parsed
C7_Witness ==
    /\ pc = "parse_tech_week_html"
    /\ idx >= 1
    /\ html[idx] = K_Sponsored
    /\ event.month = Oct
    /\ event.day = T_6
    /\ event.date = T_October6

ContainsMarker(title) ==
    \E i \in 1..Len(title) : i + 10 <= Len(title) /\ SubSeq(title, i, i + 10) = Marker

\* C8: the Event title format_for_csv gives a record with a name contains
\* "[Tech Week]"; it is the name itself when the name contains the marker
\* and the name followed by " [Tech Week]" when it does not; marking a
\* formatted title again gives the same title.
C8_MarkerAppendedOnce ==
    pc = "done" =>
        /\ Len(formatted) = Len(parsed)
        /\ \A i \in 1..Len(formatted) :
               /\ parsed[i].name # <<>>
               /\ ContainsMarker(formatted[i].Event)
               /\ ContainsMarker(parsed[i].name) => formatted[i].Event = parsed[i].name
               /\ ~ContainsMarker(parsed[i].name) =>
                      formatted[i].Event = parsed[i].name \o <<" ">> \o Marker
               /\ mark_title(formatted[i].Event) = formatted[i].Event

\* a name that carries the marker and a name that does not have both been
\* formatted
C8_Witness ==
    /\ pc = "done"
    /\ Len(formatted) = 2
    /\ parsed[1].name = T_AIMeetupTW
    /\ formatted[1].Event = T_AIMeetupTW
    /\ parsed[2].name = T_AIMeetup
    /\ formatted[2].Event = T_AIMeetupTW

====
